---- MODULE Spec2Model ----
(***************************************************************************)
(* A model of LaTeXParser (src/utils/latex-parser.js).                     *)
(*                                                                         *)
(* A JavaScript string is a sequence of UTF-16 code units.  A code unit is *)
(* written as a one-character TLA+ string when it is ASCII and as "U+XXXX" *)
(* when it is not; every glyph of the symbol table lies in the Basic       *)
(* Multilingual Plane, so each is one element and .length is Len.          *)
(* A regular expression is modelled by the operator that gives, for a      *)
(* start position, the position after its match there (0 when it does not  *)
(* match), and String.prototype.replace with a /g pattern by the           *)
(* left-to-right splice of those matches.                                  *)
(***************************************************************************)
EXTENDS Integers, Sequences, FiniteSets, TLC

VARIABLES
    latex,      \* the string given to parse
    result,     \* the outcome of the first parse
    call,       \* the call made after it, with its argument and what it returned
    table,      \* this.symbolMap
    regexes,    \* lastIndex of the /g pattern objects the last extract call tested
    state,      \* the state object of the background service worker
    handlers    \* the calls of handleMessage, in the order of their messages

vars == <<latex, result, call, table, regexes, state, handlers>>

\* ------------------------------------------------------------ characters

BS == "\\"

Lower == {"a", "b", "c", "d", "e", "f", "g", "h", "i", "j", "k", "l", "m",
          "n", "o", "p", "q", "r", "s", "t", "u", "v", "w", "x", "y", "z"}

Upper == {"A", "B", "C", "D", "E", "F", "G", "H", "I", "J", "K", "L", "M",
          "N", "O", "P", "Q", "R", "S", "T", "U", "V", "W", "X", "Y", "Z"}

\* [a-zA-Z]
Letter == Lower \cup Upper

\* \d
Digit == {"0", "1", "2", "3", "4", "5", "6", "7", "8", "9"}

\* \w
WordChar == Letter \cup Digit \cup {"_"}

\* \s, and the characters String.prototype.trim strips ("\t" and "\n" stand
\* for the tab and the line feed)
WhiteSpace == {" ", "\t", "\n"}

UpperSeq == <<"A", "B", "C", "D", "E", "F", "G", "H", "I", "J", "K", "L", "M",
              "N", "O", "P", "Q", "R", "S", "T", "U", "V", "W", "X", "Y", "Z">>

LowerSeq == <<"a", "b", "c", "d", "e", "f", "g", "h", "i", "j", "k", "l", "m",
              "n", "o", "p", "q", "r", "s", "t", "u", "v", "w", "x", "y", "z">>

\* The case folding of an /i pattern on the characters of the model.
Fold(c) ==
    IF c \in Upper THEN LowerSeq[CHOOSE k \in 1..26 : UpperSeq[k] = c] ELSE c

\* The characters "." does not match.
LineTerminator == {"\n"}

\* --------------------------------------------------- JavaScript outcomes

\* A call either returns a value or throws.
Normal(v) == [type |-> "normal", value |-> v]

ThrowTypeError == [type |-> "throw", value |-> "TypeError"]

\* String.prototype.match with a /g pattern yields null when nothing matches
\* and the array of the matched substrings otherwise.
NullMatch == [isNull |-> TRUE, items |-> <<>>]

ArrayMatch(items) == [isNull |-> FALSE, items |-> items]

\* ------------------------------------------------------- string helpers

Min(a, b) == IF a < b THEN a ELSE b

Max(a, b) == IF a > b THEN a ELSE b

\* s.substring(i-1, j-1): the characters i..j-1
Slice(s, i, j) == SubSeq(s, i, j - 1)

\* The literal pat occurs in s at position i.
At(s, i, pat) ==
    /\ i >= 1
    /\ i + Len(pat) - 1 <= Len(s)
    /\ SubSeq(s, i, i + Len(pat) - 1) = pat

\* s.includes(pat)
includes(s, pat) == \E i \in 1..(Len(s) + 1) : At(s, i, pat)

\* The first position >= i of s holding a character of set C, Len(s)+1 if none.
FirstIn(s, i, C) ==
    LET hits == {k \in i..Len(s) : s[k] \in C}
    IN  IF hits = {} THEN Len(s) + 1
        ELSE CHOOSE k \in hits : \A m \in hits : k <= m

\* The first position >= i of s holding a character outside C, Len(s)+1 if none.
FirstNotIn(s, i, C) ==
    LET hits == {k \in i..Len(s) : s[k] \notin C}
    IN  IF hits = {} THEN Len(s) + 1
        ELSE CHOOSE k \in hits : \A m \in hits : k <= m

\* String.prototype.trim
trim(s) ==
    LET keep == {k \in 1..Len(s) : s[k] \notin WhiteSpace}
    IN  IF keep = {} THEN <<>>
        ELSE LET lo == CHOOSE k \in keep : \A m \in keep : k <= m
                 hi == CHOOSE k \in keep : \A m \in keep : k >= m
             IN  SubSeq(s, lo, hi)

\* The splice of String.prototype.replace(/.../g, ...): end[i] is the position
\* after the match that starts at i (0: no match at i), rep[i] its
\* replacement.  The scan takes the leftmost match at or after i, copies the
\* characters before it, and resumes after it.
RECURSIVE Splice(_, _, _, _)
Splice(s, end, rep, i) ==
    LET hits == {k \in i..Len(s) : end[k] > 0}
    IN  IF hits = {} THEN SubSeq(s, i, Len(s))
        ELSE LET k == CHOOSE h \in hits : \A m \in hits : h <= m
             IN  SubSeq(s, i, k - 1) \o rep[k] \o Splice(s, end, rep, end[k])

\* v is computed first and F applied to its value: JavaScript evaluates the
\* receiver of a chained call, and the right-hand side of an assignment,
\* before the next call runs (src/utils/latex-parser.js:54-63, 70-99).
Then(v, F(_)) == CHOOSE r \in {F(t) : t \in {v}} : TRUE

\* The steps lo..hi of a chain applied to s in order: Step(n, t) is step n on
\* the value t (the range is halved only to keep the evaluation shallow);
\* src/utils/latex-parser.js:54-63, 70-99.
RECURSIVE Run(_, _, _, _)
Run(Step(_, _), s, lo, hi) ==
    IF lo > hi THEN s
    ELSE IF lo = hi THEN Step(lo, s)
    ELSE LET mid == (lo + hi) \div 2
         IN  Then(Run(Step, s, lo, mid), LAMBDA t : Run(Step, t, mid + 1, hi))

\* s.replace(re, f) for a /g pattern that matches no empty string: MatchEnd
\* is the pattern, Subst(s, i, e) the replacement of the match s[i..e-1]
\* (src/utils/latex-parser.js:56-62, 74-97).
ReplaceAll(s, MatchEnd(_, _), Subst(_, _, _)) ==
    IF s = <<>> THEN s
    ELSE LET end == [i \in 1..Len(s) |-> MatchEnd(s, i)]
             rep == [i \in 1..Len(s) |->
                        IF end[i] > 0 THEN Subst(s, i, end[i]) ELSE <<>>]
         IN  IF \A i \in 1..Len(s) : end[i] = 0 THEN s ELSE Splice(s, end, rep, 1)

\* re.test(s) for a pattern that matches no empty string
\* (src/utils/latex-parser.js:156, 182).
Test(s, MatchEnd(_, _)) == \E i \in 1..Len(s) : MatchEnd(s, i) > 0

\* A variant in which a pattern object outlives the call that made it and
\* keeps its lastIndex.
RegExpLiteral_retained(retained) == retained

\* The lastIndex of the object a regular-expression literal evaluates to:
\* the literals of opPatterns and funcPatterns stand in the function bodies,
\* so each call makes new objects, whatever lastIndex the objects of the
\* call before were left with.
RegExpLiteral(retained) == 0

\* re.test(s) for a /g pattern that matches no empty string, on an object
\* whose lastIndex is lastIndex: the search starts there, and the object is
\* left with the end of the match, or with 0 when there is none
\* (src/utils/latex-parser.js:156, 182).  Without the /g flag test ignores
\* lastIndex, and replace and match reset it before they search.
TestG(s, lastIndex, MatchEnd(_, _)) ==
    LET hits == {i \in (lastIndex + 1)..Len(s) : MatchEnd(s, i) > 0}
    IN  IF hits = {} THEN [found |-> FALSE, lastIndex |-> 0]
        ELSE LET i == CHOOSE h \in hits : \A m \in hits : h <= m
             IN  [found |-> TRUE, lastIndex |-> MatchEnd(s, i) - 1]

\* A literal pattern.
Lit(s, i, pat) == IF At(s, i, pat) THEN i + Len(pat) ELSE 0

\* The pattern  open [^}]+ \}  after a literal opener: the position after the
\* closing brace, 0 when the body is empty or no brace closes it.  [^}]+ is
\* greedy and cannot cross a "}", so the match ends at the first "}".
BraceBody(s, j) ==
    LET k == FirstIn(s, j, {"}"})
    IN  IF j <= Len(s) /\ s[j] # "}" /\ k <= Len(s) THEN k + 1 ELSE 0

\* The literal pat occurs in s at position i, letter case ignored (/i).
AtCI(s, i, pat) ==
    /\ i >= 1
    /\ i + Len(pat) - 1 <= Len(s)
    /\ \A k \in 1..Len(pat) : Fold(s[i + k - 1]) = Fold(pat[k])

\* \b after position i - 1, where s[i - 1] is a word character.
BoundaryAfterWord(s, i) == i > Len(s) \/ s[i] \notin WordChar

\* The matched substrings of a /g scan, from position i on.
RECURSIVE Matched(_, _, _)
Matched(s, end, i) ==
    LET hits == {k \in i..Len(s) : end[k] > 0}
    IN  IF hits = {} THEN <<>>
        ELSE LET k == CHOOSE h \in hits : \A m \in hits : h <= m
             IN  <<Slice(s, k, end[k])>> \o Matched(s, end, end[k])

\* s.match(re) for a /g pattern that matches no empty string
\* (src/utils/latex-parser.js:125, 237).
match(s, MatchEnd(_, _)) ==
    LET end == [i \in 1..Len(s) |-> MatchEnd(s, i)]
    IN  IF \A i \in 1..Len(s) : end[i] = 0 THEN NullMatch
        ELSE ArrayMatch(Matched(s, end, 1))

\* --------------------------------------------------------------- clean

\* /\\\[|\\\]/g
DisplayDelim(s, i) ==
    IF At(s, i, <<BS, "[">>) \/ At(s, i, <<BS, "]">>) THEN i + 2 ELSE 0

\* /\$\$?/g
InlineDelim(s, i) ==
    IF s[i] # "$" THEN 0
    ELSE IF i + 1 <= Len(s) /\ s[i + 1] = "$" THEN i + 2 ELSE i + 1

\* /\\begin\{[^}]+\}/g
BeginEnv(s, i) ==
    IF At(s, i, <<BS, "b", "e", "g", "i", "n", "{">>) THEN BraceBody(s, i + 7) ELSE 0

\* /\\end\{[^}]+\}/g
EndEnv(s, i) ==
    IF At(s, i, <<BS, "e", "n", "d", "{">>) THEN BraceBody(s, i + 5) ELSE 0

\* /&/g
Ampersand(s, i) == Lit(s, i, <<"&">>)

\* /\\\\/g
LineBreak(s, i) == Lit(s, i, <<BS, BS>>)

\* /\s+/g
Spaces(s, i) == IF s[i] \in WhiteSpace THEN FirstNotIn(s, i, WhiteSpace) ELSE 0

Empty(s, i, e) == <<>>

OneSpace(s, i, e) == <<" ">>

\* The chained calls of clean, in order.
cleanStep(n, s) ==
    CASE n = 1 -> trim(s)
      [] n = 2 -> ReplaceAll(s, DisplayDelim, Empty)
      [] n = 3 -> ReplaceAll(s, InlineDelim, Empty)
      [] n = 4 -> ReplaceAll(s, BeginEnv, Empty)
      [] n = 5 -> ReplaceAll(s, EndEnv, Empty)
      [] n = 6 -> ReplaceAll(s, Ampersand, OneSpace)
      [] n = 7 -> ReplaceAll(s, LineBreak, OneSpace)
      [] n = 8 -> ReplaceAll(s, Spaces, OneSpace)
      [] n = 9 -> trim(s)

clean(s) == Run(cleanStep, s, 1, 9)

\* ----------------------------------------------------------- symbolMap

\* The entries of symbolMap in insertion order (the order Object.entries
\* yields): <<command, glyph>>.
symbolMap ==
    <<
       <<<<BS, "a", "l", "p", "h", "a">>, <<"U+03B1">>>>,
       <<<<BS, "b", "e", "t", "a">>, <<"U+03B2">>>>,
       <<<<BS, "g", "a", "m", "m", "a">>, <<"U+03B3">>>>,
       <<<<BS, "d", "e", "l", "t", "a">>, <<"U+03B4">>>>,
       <<<<BS, "e", "p", "s", "i", "l", "o", "n">>, <<"U+03B5">>>>,
       <<<<BS, "z", "e", "t", "a">>, <<"U+03B6">>>>,
       <<<<BS, "e", "t", "a">>, <<"U+03B7">>>>,
       <<<<BS, "t", "h", "e", "t", "a">>, <<"U+03B8">>>>,
       <<<<BS, "i", "o", "t", "a">>, <<"U+03B9">>>>,
       <<<<BS, "k", "a", "p", "p", "a">>, <<"U+03BA">>>>,
       <<<<BS, "l", "a", "m", "b", "d", "a">>, <<"U+03BB">>>>,
       <<<<BS, "m", "u">>, <<"U+03BC">>>>,
       <<<<BS, "n", "u">>, <<"U+03BD">>>>,
       <<<<BS, "x", "i">>, <<"U+03BE">>>>,
       <<<<BS, "p", "i">>, <<"U+03C0">>>>,
       <<<<BS, "r", "h", "o">>, <<"U+03C1">>>>,
       <<<<BS, "s", "i", "g", "m", "a">>, <<"U+03C3">>>>,
       <<<<BS, "t", "a", "u">>, <<"U+03C4">>>>,
       <<<<BS, "u", "p", "s", "i", "l", "o", "n">>, <<"U+03C5">>>>,
       <<<<BS, "p", "h", "i">>, <<"U+03C6">>>>,
       <<<<BS, "c", "h", "i">>, <<"U+03C7">>>>,
       <<<<BS, "p", "s", "i">>, <<"U+03C8">>>>,
       <<<<BS, "o", "m", "e", "g", "a">>, <<"U+03C9">>>>,
       <<<<BS, "G", "a", "m", "m", "a">>, <<"U+0393">>>>,
       <<<<BS, "D", "e", "l", "t", "a">>, <<"U+0394">>>>,
       <<<<BS, "T", "h", "e", "t", "a">>, <<"U+0398">>>>,
       <<<<BS, "L", "a", "m", "b", "d", "a">>, <<"U+039B">>>>,
       <<<<BS, "X", "i">>, <<"U+039E">>>>,
       <<<<BS, "P", "i">>, <<"U+03A0">>>>,
       <<<<BS, "S", "i", "g", "m", "a">>, <<"U+03A3">>>>,
       <<<<BS, "P", "h", "i">>, <<"U+03A6">>>>,
       <<<<BS, "P", "s", "i">>, <<"U+03A8">>>>,
       <<<<BS, "O", "m", "e", "g", "a">>, <<"U+03A9">>>>,
       <<<<BS, "i", "n", "f", "t", "y">>, <<"U+221E">>>>,
       <<<<BS, "p", "a", "r", "t", "i", "a", "l">>, <<"U+2202">>>>,
       <<<<BS, "n", "a", "b", "l", "a">>, <<"U+2207">>>>,
       <<<<BS, "s", "u", "m">>, <<"U+03A3">>>>,
       <<<<BS, "p", "r", "o", "d">>, <<"U+03A0">>>>,
       <<<<BS, "i", "n", "t">>, <<"U+222B">>>>,
       <<<<BS, "l", "e", "q">>, <<"U+2264">>>>,
       <<<<BS, "g", "e", "q">>, <<"U+2265">>>>,
       <<<<BS, "n", "e", "q">>, <<"U+2260">>>>,
       <<<<BS, "a", "p", "p", "r", "o", "x">>, <<"U+2248">>>>,
       <<<<BS, "p", "m">>, <<"U+00B1">>>>,
       <<<<BS, "t", "i", "m", "e", "s">>, <<"U+00D7">>>>,
       <<<<BS, "d", "i", "v">>, <<"U+00F7">>>>,
       <<<<BS, "c", "d", "o", "t">>, <<"U+00B7">>>>,
       <<<<BS, "i", "n">>, <<"U+2208">>>>,
       <<<<BS, "n", "o", "t", "i", "n">>, <<"U+2209">>>>,
       <<<<BS, "s", "u", "b", "s", "e", "t">>, <<"U+2282">>>>,
       <<<<BS, "s", "u", "p", "s", "e", "t">>, <<"U+2283">>>>,
       <<<<BS, "c", "u", "p">>, <<"U+222A">>>>,
       <<<<BS, "c", "a", "p">>, <<"U+2229">>>>,
       <<<<BS, "e", "m", "p", "t", "y", "s", "e", "t">>, <<"U+2205">>>>,
       <<<<BS, "f", "o", "r", "a", "l", "l">>, <<"U+2200">>>>,
       <<<<BS, "e", "x", "i", "s", "t", "s">>, <<"U+2203">>>>,
       <<<<BS, "n", "e", "g">>, <<"U+00AC">>>>,
       <<<<BS, "w", "e", "d", "g", "e">>, <<"U+2227">>>>,
       <<<<BS, "v", "e", "e">>, <<"U+2228">>>>,
       <<<<BS, "R", "i", "g", "h", "t", "a", "r", "r", "o", "w">>, <<"U+21D2">>>>,
       <<<<BS, "L", "e", "f", "t", "r", "i", "g", "h", "t", "a", "r", "r", "o", "w">>, <<"U+21D4">>>>,
       <<<<BS, "r", "i", "g", "h", "t", "a", "r", "r", "o", "w">>, <<"U+2192">>>>,
       <<<<BS, "l", "e", "f", "t", "a", "r", "r", "o", "w">>, <<"U+2190">>>>,
       <<<<BS, "l", "e", "f", "t", "r", "i", "g", "h", "t", "a", "r", "r", "o", "w">>, <<"U+2194">>>>,
       <<<<BS, "l", "d", "o", "t", "s">>, <<".", ".", ".">>>>,
       <<<<BS, "c", "d", "o", "t", "s">>, <<"U+22EF">>>>,
       <<<<BS, "v", "d", "o", "t", "s">>, <<"U+22EE">>>>,
       <<<<BS, "s", "q", "r", "t">>, <<"U+221A">>>>,
       <<<<BS, "e", "x", "p">>, <<"e", "x", "p">>>>,
       <<<<BS, "l", "o", "g">>, <<"l", "o", "g">>>>,
       <<<<BS, "l", "n">>, <<"l", "n">>>>,
       <<<<BS, "s", "i", "n">>, <<"s", "i", "n">>>>,
       <<<<BS, "c", "o", "s">>, <<"c", "o", "s">>>>,
       <<<<BS, "t", "a", "n">>, <<"t", "a", "n">>>>,
       <<<<BS, "l", "i", "m">>, <<"l", "i", "m">>>>,
       <<<<BS, "m", "a", "x">>, <<"m", "a", "x">>>>,
       <<<<BS, "m", "i", "n">>, <<"m", "i", "n">>>>,
       <<<<BS, "a", "r", "g">>, <<"a", "r", "g">>>>
    >>

\* ---------------------------------------------------------- toReadable

\* result.replace(new RegExp(texCmd.replace(/\\/g, '\\\\'), 'g'), symbol): the
\* pattern is the command as a literal, with nothing required after it.
ReplaceSymbol(s, texCmd, symbol) ==
    IF s = <<>> THEN s
    ELSE LET end == [i \in 1..Len(s) |-> Lit(s, i, texCmd)]
             rep == [i \in 1..Len(s) |-> symbol]
         IN  IF \A i \in 1..Len(s) : end[i] = 0 THEN s ELSE Splice(s, end, rep, 1)

\* One iteration of the for loop over Object.entries(this.symbolMap).
symbolStep(n, s) == ReplaceSymbol(s, table[n][1], table[n][2])

\* /\\frac\{([^}]+)\}\{([^}]+)\}/g
Frac(s, i) ==
    IF ~At(s, i, <<BS, "f", "r", "a", "c", "{">>) THEN 0
    ELSE LET k == BraceBody(s, i + 6)
         IN  IF k > 0 /\ k <= Len(s) /\ s[k] = "{" THEN BraceBody(s, k + 1) ELSE 0

\* '($1)/($2)'
FracSubst(s, i, e) ==
    LET k == BraceBody(s, i + 6)
    IN  <<"(">> \o Slice(s, i + 6, k - 1) \o <<")", "/", "(">>
            \o Slice(s, k + 1, e - 1) \o <<")">>

\* /\^{([^}]+)}/g and /_{([^}]+)}/g
Script(mark, s, i) == IF At(s, i, <<mark, "{">>) THEN BraceBody(s, i + 2) ELSE 0

\* '^($1)' and '_($1)'
ScriptSubst(mark, s, i, e) == <<mark, "(">> \o Slice(s, i + 2, e - 1) \o <<")">>

\* /\^(\w)/g and /_(\w)/g
Script1(mark, s, i) ==
    IF s[i] = mark /\ i + 1 <= Len(s) /\ s[i + 1] \in WordChar THEN i + 2 ELSE 0

\* '^$1' and '_$1'
Script1Subst(mark, s, i, e) == <<mark, s[i + 1]>>

\* /\\sqrt\{([^}]+)\}/g
Sqrt(s, i) ==
    IF At(s, i, <<BS, "s", "q", "r", "t", "{">>) THEN BraceBody(s, i + 6) ELSE 0

\* '√($1)'
SqrtSubst(s, i, e) == <<"U+221A", "(">> \o Slice(s, i + 6, e - 1) \o <<")">>

\* /\\sqrt\[(\d+)\]\{([^}]+)\}/g
SqrtN(s, i) ==
    IF ~At(s, i, <<BS, "s", "q", "r", "t", "[">>) THEN 0
    ELSE LET j == FirstNotIn(s, i + 6, Digit)
         IN  IF j > i + 6 /\ At(s, j, <<"]", "{">>) THEN BraceBody(s, j + 2) ELSE 0

\* '$1√($2)'
SqrtNSubst(s, i, e) ==
    LET j == FirstNotIn(s, i + 6, Digit)
    IN  Slice(s, i + 6, j) \o <<"U+221A", "(">> \o Slice(s, j + 2, e - 1) \o <<")">>

\* /\\text\{([^}]+)\}/g, /\\mathrm\{([^}]+)\}/g, /\\mathbf\{([^}]+)\}/g
Wrapper(name, s, i) ==
    IF At(s, i, <<BS>> \o name \o <<"{">>) THEN BraceBody(s, i + Len(name) + 2) ELSE 0

\* '$1'
WrapperSubst(name, s, i, e) == Slice(s, i + Len(name) + 2, e - 1)

\* /\\[a-zA-Z]+/g
Command(s, i) ==
    IF s[i] = BS /\ i + 1 <= Len(s) /\ s[i + 1] \in Letter
    THEN FirstNotIn(s, i + 1, Letter) ELSE 0

\* /[{}]/g
Brace(s, i) == IF s[i] \in {"{", "}"} THEN i + 1 ELSE 0

\* The statements of toReadable, in order.
readableStep(n, s) ==
    CASE n = 1  -> Run(symbolStep, s, 1, Len(table))
      [] n = 2  -> ReplaceAll(s, Frac, FracSubst)
      [] n = 3  -> ReplaceAll(s, LAMBDA t, i : Script("^", t, i),
                              LAMBDA t, i, e : ScriptSubst("^", t, i, e))
      [] n = 4  -> ReplaceAll(s, LAMBDA t, i : Script("_", t, i),
                              LAMBDA t, i, e : ScriptSubst("_", t, i, e))
      [] n = 5  -> ReplaceAll(s, LAMBDA t, i : Script1("^", t, i),
                              LAMBDA t, i, e : Script1Subst("^", t, i, e))
      [] n = 6  -> ReplaceAll(s, LAMBDA t, i : Script1("_", t, i),
                              LAMBDA t, i, e : Script1Subst("_", t, i, e))
      [] n = 7  -> ReplaceAll(s, Sqrt, SqrtSubst)
      [] n = 8  -> ReplaceAll(s, SqrtN, SqrtNSubst)
      [] n = 9  -> ReplaceAll(s, LAMBDA t, i : Wrapper(<<"t", "e", "x", "t">>, t, i),
                              LAMBDA t, i, e : WrapperSubst(<<"t", "e", "x", "t">>, t, i, e))
      [] n = 10 -> ReplaceAll(s, LAMBDA t, i : Wrapper(<<"m", "a", "t", "h", "r", "m">>, t, i),
                              LAMBDA t, i, e : WrapperSubst(<<"m", "a", "t", "h", "r", "m">>, t, i, e))
      [] n = 11 -> ReplaceAll(s, LAMBDA t, i : Wrapper(<<"m", "a", "t", "h", "b", "f">>, t, i),
                              LAMBDA t, i, e : WrapperSubst(<<"m", "a", "t", "h", "b", "f">>, t, i, e))
      [] n = 12 -> ReplaceAll(s, Command, Empty)
      [] n = 13 -> ReplaceAll(s, Brace, Empty)
      [] n = 14 -> trim(s)

toReadable(s) == Run(readableStep, s, 1, 14)

\* ----------------------------------------------------- extractVariables

\* /(?<![\\a-zA-Z])([a-zA-Z])(?![a-zA-Z])/g
Latin(s, i) ==
    IF /\ s[i] \in Letter
       /\ (i = 1 \/ s[i - 1] \notin Letter \cup {BS})
       /\ (i = Len(s) \/ s[i + 1] \notin Letter)
    THEN i + 1 ELSE 0

\* An object literal { symbol, latex, type }: ref is the identity of the
\* object, the number of the allocation that made it.
NewObject(ref, symbol, tex, type) ==
    [ref |-> ref, symbol |-> symbol, latex |-> tex, type |-> type]

\* Set.prototype.add: a Set holds a value once, and two objects are the same
\* value only when they are the same object.
SetAdd(set, obj) ==
    IF \E k \in 1..Len(set) : set[k].ref = obj.ref THEN set ELSE Append(set, obj)

RECURSIVE AddEach(_, _)
AddEach(set, objs) ==
    IF objs = <<>> THEN set ELSE AddEach(SetAdd(set, Head(objs)), Tail(objs))

\* Array.from(variables): the members in insertion order.
ArrayFrom(set) ==
    [k \in 1..Len(set) |->
        [symbol |-> set[k].symbol, latex |-> set[k].latex, type |-> set[k].type]]

\* The entries of symbolMap whose command latex.includes.
GreekHits(s) == SelectSeq(table, LAMBDA entry : includes(s, entry[1]))

\* A variant of the forEach callback without the test of line 128.
LatinHits_unfiltered(items) == items

\* The letters the forEach callback adds.
LatinHits(items) == SelectSeq(items, LAMBDA v : v \notin {<<"d">>, <<"e">>, <<"i">>})

\* The Set after the loops, given the array of Latin matches.
CollectVariables(s, items) ==
    LET greek == GreekHits(s)
        latin == LatinHits(items)
        objs  == [k \in 1..(Len(greek) + Len(latin)) |->
                    IF k <= Len(greek)
                    THEN NewObject(k, greek[k][2], greek[k][1], "greek")
                    ELSE NewObject(k, latin[k - Len(greek)], latin[k - Len(greek)], "latin")]
    IN  AddEach(<<>>, objs)

\* A variant without the "if (latinMatches)" guard: forEach on null throws.
extractVariables_unguarded(s) ==
    LET latinMatches == match(s, Latin)
    IN  IF latinMatches.isNull THEN ThrowTypeError
        ELSE Normal(ArrayFrom(CollectVariables(s, latinMatches.items)))

extractVariables(s) ==
    LET latinMatches == match(s, Latin)
    IN  IF latinMatches.isNull
        THEN Normal(ArrayFrom(CollectVariables(s, <<>>)))
        ELSE Normal(ArrayFrom(CollectVariables(s, latinMatches.items)))

\* ----------------------------------------------------- extractOperators

\* /\\mathbb\{E\}|\\E\b/g
Expectation(s, i) ==
    IF At(s, i, <<BS, "m", "a", "t", "h", "b", "b", "{", "E", "}">>) THEN i + 10
    ELSE IF At(s, i, <<BS, "E">>) /\ BoundaryAfterWord(s, i + 2) THEN i + 2
    ELSE 0

\* /\\mathbb\{P\}|\\Pr?\b/g
Probability(s, i) ==
    IF At(s, i, <<BS, "m", "a", "t", "h", "b", "b", "{", "P", "}">>) THEN i + 10
    ELSE IF At(s, i, <<BS, "P", "r">>) /\ BoundaryAfterWord(s, i + 3) THEN i + 3
    ELSE IF At(s, i, <<BS, "P">>) /\ BoundaryAfterWord(s, i + 2) THEN i + 2
    ELSE 0

\* /\\arg\s*\\max/g and /\\arg\s*\\min/g
ArgOf(name, s, i) ==
    IF ~At(s, i, <<BS, "a", "r", "g">>) THEN 0
    ELSE Lit(s, FirstNotIn(s, i + 4, WhiteSpace), <<BS>> \o name)

\* The keys of opPatterns in insertion order.
opNames ==
    <<"sum", "product", "integral", "limit", "expectation", "probability",
      "gradient", "argmax", "argmin">>

\* The pattern opPatterns[name].
opPattern(name, s, i) ==
    CASE name = "sum"         -> Lit(s, i, <<BS, "s", "u", "m">>)
      [] name = "product"     -> Lit(s, i, <<BS, "p", "r", "o", "d">>)
      [] name = "integral"    -> Lit(s, i, <<BS, "i", "n", "t">>)
      [] name = "limit"       -> Lit(s, i, <<BS, "l", "i", "m">>)
      [] name = "expectation" -> Expectation(s, i)
      [] name = "probability" -> Probability(s, i)
      [] name = "gradient"    -> Lit(s, i, <<BS, "n", "a", "b", "l", "a">>)
      [] name = "argmax"      -> ArgOf(<<"m", "a", "x">>, s, i)
      [] name = "argmin"      -> ArgOf(<<"m", "i", "n">>, s, i)

\* pattern.test(latex) in the loop of extractOperators, with the lastIndex the
\* pattern object is left with.
opExec(name, s) ==
    TestG(s, RegExpLiteral(regexes[name]), LAMBDA t, i : opPattern(name, t, i))

\* opPatterns[name].test(latex), on a pattern object made by this call
opTest(name, s) == opExec(name, s).found

\* A variant that pushes every name without testing its pattern.
extractOperators_untested(s) == opNames

extractOperators(s) == SelectSeq(opNames, LAMBDA name : opTest(name, s))

\* ----------------------------------------------------- extractFunctions

\* A literal of a /i pattern.
LitCI(s, i, pat) == IF AtCI(s, i, pat) THEN i + Len(pat) ELSE 0

\* "|" at position i, then .*? up to a later "|" at position m
BarPair(s, i, m) ==
    /\ i <= Len(s) /\ s[i] = "|"
    /\ m > i /\ m <= Len(s) /\ s[m] = "|"
    /\ \A k \in (i + 1)..(m - 1) : s[k] \notin LineTerminator

\* /\\|\s*\|.*?\|\s*\\||\|.*?\|/g has four alternatives: a backslash; \s*, a
\* bar pair, \s* and a backslash; the empty pattern (between the two
\* adjacent "|"); a bar pair.  normAt: some alternative matches at i.
normAt(s, i) ==
    \/ At(s, i, <<BS>>)
    \/ \E m \in 1..Len(s) :
          /\ BarPair(s, FirstNotIn(s, i, WhiteSpace), m)
          /\ At(s, FirstNotIn(s, m + 1, WhiteSpace), <<BS>>)
    \/ TRUE
    \/ \E m \in 1..Len(s) : BarPair(s, i, m)

\* The end of the match of the norm pattern at i: the first alternative that
\* matches there decides, and the lazy .*? stops at the first bar that lets
\* the rest match.
normEnd(s, i) ==
    IF At(s, i, <<BS>>) THEN i + 1
    ELSE LET j  == FirstNotIn(s, i, WhiteSpace)
             ms == {m \in 1..Len(s) :
                       /\ BarPair(s, j, m)
                       /\ At(s, FirstNotIn(s, m + 1, WhiteSpace), <<BS>>)}
         IN  IF ms = {} THEN i
             ELSE FirstNotIn(s, (CHOOSE m \in ms : \A k \in ms : m <= k) + 1, WhiteSpace) + 1

\* The keys of funcPatterns in insertion order.
funcNames ==
    <<"exponential", "logarithm", "softmax", "sigmoid", "relu", "tanh", "loss", "norm">>

\* The first of the literals pats (in the order of the alternation) that
\* stands at position i: the position after it, 0 when none does.
FirstLit(s, i, pats) ==
    LET hits == {n \in 1..Len(pats) : Lit(s, i, pats[n]) > 0}
    IN  IF hits = {} THEN 0
        ELSE Lit(s, i, pats[CHOOSE n \in hits : \A m \in hits : n <= m])

FirstLitCI(s, i, pats) ==
    LET hits == {n \in 1..Len(pats) : LitCI(s, i, pats[n]) > 0}
    IN  IF hits = {} THEN 0
        ELSE LitCI(s, i, pats[CHOOSE n \in hits : \A m \in hits : n <= m])

\* The pattern funcPatterns[name], for every name but norm.
funcPattern(name, s, i) ==
    CASE name = "exponential" -> FirstLit(s, i, <<(<<BS, "e", "x", "p">>), (<<"e", "^">>)>>)
      [] name = "logarithm"   -> FirstLit(s, i, <<(<<BS, "l", "o", "g">>), (<<BS, "l", "n">>)>>)
      [] name = "softmax"     -> FirstLitCI(s, i, <<(<<"s", "o", "f", "t", "m", "a", "x">>)>>)
      [] name = "sigmoid"     -> FirstLitCI(s, i, <<(<<"s", "i", "g", "m", "o", "i", "d">>),
                                                    (<<BS, "s", "i", "g", "m", "a">>)>>)
      [] name = "relu"        -> FirstLitCI(s, i, <<(<<"r", "e", "l", "u">>)>>)
      [] name = "tanh"        -> FirstLitCI(s, i, <<(<<BS, "t", "a", "n", "h">>),
                                                    (<<"t", "a", "n", "h">>)>>)
      [] name = "loss"        ->
            FirstLitCI(s, i, <<(<<BS, "m", "a", "t", "h", "c", "a", "l", "{", "L", "}">>),
                               (<<"l", "o", "s", "s">>)>>)

\* The first position from i on, up to the end of the string, where the norm
\* pattern matches; 0 when there is none.
RECURSIVE normFrom(_, _)
normFrom(s, i) ==
    IF i > Len(s) + 1 THEN 0
    ELSE IF normAt(s, i) THEN i
    ELSE normFrom(s, i + 1)

\* funcPatterns.norm.test(latex) on an object whose lastIndex is lastIndex:
\* the pattern matches the empty string, so the search runs to the end of
\* the string and fails only when lastIndex lies beyond it.
normExec(s, lastIndex) ==
    LET i == normFrom(s, lastIndex + 1)
    IN  IF i = 0 THEN [found |-> FALSE, lastIndex |-> 0]
        ELSE [found |-> TRUE, lastIndex |-> normEnd(s, i) - 1]

\* pattern.test(latex) in the loop of extractFunctions, with the lastIndex the
\* pattern object is left with.
funcExec(name, s) ==
    IF name = "norm" THEN normExec(s, RegExpLiteral(regexes[name]))
    ELSE TestG(s, RegExpLiteral(regexes[name]), LAMBDA t, i : funcPattern(name, t, i))

\* funcPatterns[name].test(latex), on a pattern object made by this call
funcTest(name, s) == funcExec(name, s).found

extractFunctions(s) == SelectSeq(funcNames, LAMBDA name : funcTest(name, s))

\* ---------------------------------------- countNesting, estimateComplexity

\* The for loop of countNesting over the braces of the string (a character
\* that is no brace changes neither counter), from brace n on.
RECURSIVE NestingLoop(_, _, _, _)
NestingLoop(braces, n, maxDepth, currentDepth) ==
    IF n > Len(braces) THEN maxDepth
    ELSE IF braces[n] = "{"
         THEN NestingLoop(braces, n + 1, Max(maxDepth, currentDepth + 1), currentDepth + 1)
         ELSE NestingLoop(braces, n + 1, maxDepth, currentDepth - 1)

\* A variant that returns the running counter where countNesting returns the
\* maximum.
countNesting_running(s) ==
    Cardinality({k \in 1..Len(s) : s[k] = "{"}) - Cardinality({k \in 1..Len(s) : s[k] = "}"})

countNesting(s) ==
    NestingLoop(SelectSeq(s, LAMBDA c : c \in {"{", "}"}), 1, 0, 0)

\* /\\(sum|prod|int|lim|frac)/g
BigOp(s, i) ==
    IF At(s, i, <<BS, "s", "u", "m">>) THEN i + 4
    ELSE IF At(s, i, <<BS, "p", "r", "o", "d">>) THEN i + 5
    ELSE IF At(s, i, <<BS, "i", "n", "t">>) THEN i + 4
    ELSE IF At(s, i, <<BS, "l", "i", "m">>) THEN i + 4
    ELSE IF At(s, i, <<BS, "f", "r", "a", "c">>) THEN i + 5
    ELSE 0

\* /\\begin\{[pbvBV]?matrix\}/
MatrixEnv(s, i) ==
    IF ~At(s, i, <<BS, "b", "e", "g", "i", "n", "{">>) THEN 0
    ELSE IF At(s, i + 7, <<"m", "a", "t", "r", "i", "x", "}">>) THEN i + 14
    ELSE IF /\ i + 7 <= Len(s)
            /\ s[i + 7] \in {"p", "b", "v", "B", "V"}
            /\ At(s, i + 8, <<"m", "a", "t", "r", "i", "x", "}">>) THEN i + 15
    ELSE 0

\* m || []
OrEmpty(m) == IF m.isNull THEN <<>> ELSE m.items

\* The score before the final Math.min(10, score).
rawScore(s) ==
    1 + Min(3, Len(s) \div 50)
      + Min(2, countNesting(s))
      + Min(2, Len(OrEmpty(match(s, BigOp))))
      + (IF Test(s, MatrixEnv) THEN 2 ELSE 0)

estimateComplexity(s) == Min(10, rawScore(s))

\* ------------------------------------------------------ analyzeStructure

\* A variant whose gradient rule looks for "\nabla" alone.
equationType_nablaOnly(s, hasSummation, hasMatrix) ==
    IF hasSummation /\ (includes(s, <<"l", "o", "s", "s">>)
                        \/ includes(s, <<BS, "m", "a", "t", "h", "c", "a", "l", "{", "L", "}">>))
    THEN "loss_function"
    ELSE IF includes(s, <<BS, "n", "a", "b", "l", "a">>) THEN "gradient"
    ELSE IF includes(s, <<BS, "m", "a", "t", "h", "b", "b", "{", "E", "}">>)
            \/ includes(s, <<BS, "P", "r">>)
    THEN "probability"
    ELSE IF hasMatrix THEN "matrix_operation"
    ELSE IF hasSummation THEN "summation"
    ELSE "general"

\* A variant that tests the summation rule before the gradient rule.
equationType_sumFirst(s, hasSummation, hasMatrix) ==
    IF hasSummation /\ (includes(s, <<"l", "o", "s", "s">>)
                        \/ includes(s, <<BS, "m", "a", "t", "h", "c", "a", "l", "{", "L", "}">>))
    THEN "loss_function"
    ELSE IF hasSummation THEN "summation"
    ELSE IF includes(s, <<BS, "n", "a", "b", "l", "a">>)
            \/ includes(s, <<BS, "p", "a", "r", "t", "i", "a", "l">>)
    THEN "gradient"
    ELSE IF includes(s, <<BS, "m", "a", "t", "h", "b", "b", "{", "E", "}">>)
            \/ includes(s, <<BS, "P", "r">>)
    THEN "probability"
    ELSE IF hasMatrix THEN "matrix_operation"
    ELSE "general"

\* The if / else if chain that sets structure.type.
equationType(s, hasSummation, hasMatrix) ==
    IF hasSummation /\ (includes(s, <<"l", "o", "s", "s">>)
                        \/ includes(s, <<BS, "m", "a", "t", "h", "c", "a", "l", "{", "L", "}">>))
    THEN "loss_function"
    ELSE IF includes(s, <<BS, "n", "a", "b", "l", "a">>)
            \/ includes(s, <<BS, "p", "a", "r", "t", "i", "a", "l">>)
    THEN "gradient"
    ELSE IF includes(s, <<BS, "m", "a", "t", "h", "b", "b", "{", "E", "}">>)
            \/ includes(s, <<BS, "P", "r">>)
    THEN "probability"
    ELSE IF hasMatrix THEN "matrix_operation"
    ELSE IF hasSummation THEN "summation"
    ELSE "general"

analyzeStructure(s) ==
    LET hasSummation == Test(s, LAMBDA t, i : Lit(t, i, <<BS, "s", "u", "m">>))
        hasMatrix    == Test(s, MatrixEnv)
    IN  [isEquation   |-> includes(s, <<"=">>),
         isInequality |-> \E i \in 1..Len(s) : s[i] \in {"<", ">", "U+2264", "U+2265"},
         isDefinition |-> includes(s, <<":", "=">>)
                          \/ includes(s, <<BS, "t", "r", "i", "a", "n", "g", "l", "e", "q">>),
         hasSummation |-> hasSummation,
         hasIntegral  |-> Test(s, LAMBDA t, i : Lit(t, i, <<BS, "i", "n", "t">>)),
         hasFraction  |-> Test(s, LAMBDA t, i : Lit(t, i, <<BS, "f", "r", "a", "c">>)),
         hasMatrix    |-> hasMatrix,
         complexity   |-> estimateComplexity(s),
         type         |-> equationType(s, hasSummation, hasMatrix)]

\* ----------------------------------------------------------------- parse

\* The object literal parse returns, once cleaned is computed: a call that
\* throws ends parse with that exception.
parseRecord(s, cleaned) ==
    LET variables == extractVariables(cleaned)
    IN  IF variables.type = "throw" THEN variables
        ELSE Normal([original  |-> s,
                     cleaned   |-> cleaned,
                     readable  |-> toReadable(cleaned),
                     variables |-> variables.value,
                     operators |-> extractOperators(cleaned),
                     functions |-> extractFunctions(cleaned),
                     structure |-> analyzeStructure(cleaned)])

parse(s) == Then(clean(s), LAMBDA cleaned : parseRecord(s, cleaned))

\* ------------------------------------------------------------ parseMathML

\* A start tag, an end tag or an empty-element tag: "<" up to the next ">".
Tag(s, i) == IF s[i] = "<" THEN FirstIn(s, i, {">"}) + 1 ELSE 0

\* documentElement.textContent of the document DOMParser makes of a
\* well-formed markup without entity references, comments or CDATA sections:
\* its character data in document order, that is the markup without its tags.
textContent(mathml) == ReplaceAll(mathml, Tag, Empty)

parseMathML(mathml) ==
    LET text == textContent(mathml)
    IN  Normal([original |-> mathml, text |-> trim(text), readable |-> trim(text)])

\* The names of the /g patterns that are tested with test().
PatternNames ==
    {opNames[n] : n \in 1..Len(opNames)} \cup {funcNames[n] : n \in 1..Len(funcNames)}

\* The lastIndex of each pattern object once extractOperators and
\* extractFunctions have run on s.
testedOn(s) ==
    [name \in PatternNames |->
        IF \E n \in 1..Len(opNames) : opNames[n] = name
        THEN opExec(name, s).lastIndex
        ELSE funcExec(name, s).lastIndex]

\* The pattern objects after a call of parse with the given outcome: a call
\* that threw at line 43 has made none.
afterParse(outcome) ==
    IF outcome.type = "normal" THEN testedOn(outcome.value.cleaned) ELSE regexes

\* --------------------------------------------------------- state machine

\* A command token: a backslash and the letters of its name.
Cmd(name) == <<BS>> \o name

RECURSIVE Concat(_)
Concat(fs) == IF fs = <<>> THEN <<>> ELSE Head(fs) \o Concat(Tail(fs))

\* Delimiter soup: every concatenation of at most MaxFrags of these pieces.
MaxFrags == 3

Frag == {<<BS>>, <<"$">>, <<"[">>, <<"&">>, <<" ">>, <<"x">>, <<"}">>,
         <<BS, "b", "e", "g", "i", "n", "{">>}

Soup == {Concat(fs) : fs \in UNION {[1..n -> Frag] : n \in 0..MaxFrags}}

\* Commands that are no key of symbolMap; the first four start with a key.
OtherCommands ==
    {Cmd(<<"i", "n", "f">>), Cmd(<<"p", "m", "o", "d">>), Cmd(<<"s", "i", "n", "h">>),
     Cmd(<<"l", "e", "q", "s", "l", "a", "n", "t">>), Cmd(<<"f", "o", "o">>)}

Before == {<<>>, <<"x", " ">>}

After == {<<>>, <<" ", "=", " ", "y">>}

\* One command token, alone or inside an equation.
Commands ==
    {b \o t \o a : b \in Before, a \in After,
                   t \in {symbolMap[n][1] : n \in 1..Len(symbolMap)} \cup OtherCommands}

\* "\alpha + \beta = \gamma"
GreekSum ==
    Cmd(<<"a", "l", "p", "h", "a">>) \o <<" ", "+", " ">> \o Cmd(<<"b", "e", "t", "a">>)
        \o <<" ", "=", " ">> \o Cmd(<<"g", "a", "m", "m", "a">>)

\* Operands without braces.
Operand == {<<"a">>, <<"b">>, Cmd(<<"p", "i">>)}

frac(A, B) == Cmd(<<"f", "r", "a", "c">>) \o <<"{">> \o A \o <<"}", "{">> \o B \o <<"}">>

sqrt(X) == Cmd(<<"s", "q", "r", "t">>) \o <<"{">> \o X \o <<"}">>

sqrtN(n, X) == Cmd(<<"s", "q", "r", "t">>) \o <<"[">> \o n \o <<"]", "{">> \o X \o <<"}">>

RootIndex == {<<"3">>, <<"1", "0">>}

\* "\frac{\frac{a}{b}}{c}"
NestedFraction == frac(frac(<<"a">>, <<"b">>), <<"c">>)

\* Fractions, alone, inside an equation, and one inside an operand of another;
\* square and n-th roots.
Fractions ==
    {b \o frac(A, B) \o a : b \in Before, a \in After, A \in Operand, B \in Operand}
    \cup {frac(frac(A, B), C) : A \in Operand, B \in Operand, C \in Operand}
    \cup {frac(C, frac(A, B)) : A \in Operand, B \in Operand, C \in Operand}
    \cup {NestedFraction}

Roots ==
    {b \o sqrt(X) \o a : b \in Before, a \in After, X \in Operand}
    \cup {b \o sqrtN(n, X) \o a : b \in Before, a \in After, n \in RootIndex, X \in Operand}

\* The matrix environments of /\\begin\{[pbvBV]?matrix\}/, and one other.
MatrixEnvName ==
    {e \o <<"m", "a", "t", "r", "i", "x">> : e \in {<<>>, <<"p">>, <<"b">>, <<"v">>, <<"B">>, <<"V">>}}

EnvName == MatrixEnvName \cup {<<"a", "r", "r", "a", "y">>}

env(name, body) ==
    Cmd(<<"b", "e", "g", "i", "n">>) \o <<"{">> \o name \o <<"}">> \o body
        \o Cmd(<<"e", "n", "d">>) \o <<"{">> \o name \o <<"}">>

\* "a & b \\ c & d"
Rows == <<"a", " ", "&", " ", "b", " ", BS, BS, " ", "c", " ", "&", " ", "d">>

\* What may stand before a matrix: nothing, a letter, or the marker of a
\* classification rule that ranks above matrix_operation.
Lead ==
    {<<>>, <<"A", " ", "=", " ">>,
     Cmd(<<"n", "a", "b", "l", "a">>) \o <<" ">>,
     Cmd(<<"P", "r">>) \o <<" ">>,
     Cmd(<<"s", "u", "m">>) \o <<" ">>,
     <<"l", "o", "s", "s", " ">> \o Cmd(<<"s", "u", "m">>) \o <<" ">>}

\* "\beg\end{x}in{matrix}": clean removes \end{x} after it has looked for
\* \begin{...}, and leaves "\begin{matrix}" in the cleaned string.
LateMatrix ==
    Cmd(<<"b", "e", "g">>) \o Cmd(<<"e", "n", "d">>) \o <<"{", "x", "}">>
        \o <<"i", "n", "{", "m", "a", "t", "r", "i", "x", "}">>

Matrices ==
    {l \o env(name, body) : l \in Lead, name \in EnvName, body \in {<<"a">>, Rows}}
    \cup {l \o LateMatrix \o <<"a">> : l \in Lead}

\* Long inputs: a run of n digits, then a tail.
Filler(n) == [k \in 1..n |-> "1"]

FillLength == {49, 50, 99, 100, 149, 150, 200}

Tails ==
    {<<>>,
     <<"{", "{", "x", "}", "}">>,
     Cmd(<<"s", "u", "m">>) \o frac(<<"{", "a", "}">>, <<"b">>),
     env(<<"m", "a", "t", "r", "i", "x">>, <<"{", "{", "a", "}", "}">>)
        \o Cmd(<<"s", "u", "m">>) \o Cmd(<<"p", "r", "o", "d">>),
     LateMatrix \o <<"{", "{", "a", "}", "}">>
        \o Cmd(<<"s", "u", "m">>) \o Cmd(<<"l", "i", "m">>)
        \o env(<<"m", "a", "t", "r", "i", "x">>, <<"a">>)}

Long == {Filler(n) \o t : n \in FillLength, t \in Tails}

\* Short expressions in letters.
Words ==
    {<<"x", " ", "+", " ", "x">>,
     <<"d", "x">>, <<"d">>, <<"e">>, <<"i">>, <<"e", "^", "x">>, <<"x", "_", "i">>,
     <<"a", " ", "<", " ", "b">>, <<"a", " ", ":", "=", " ", "b">>,
     <<"|", "x", "|">>,
     Cmd(<<"s", "u", "m">>) \o <<" ">> \o Cmd(<<"S", "i", "g", "m", "a">>),
     Cmd(<<"s", "u", "m">>) \o <<"_", "i", " ", "x", "_", "i">>,
     Cmd(<<"s", "u", "m">>) \o Cmd(<<"l", "i", "m", "i", "t", "s">>) \o <<"_", "i", " ", "x", "_", "i">>,
     <<"A", "^">> \o Cmd(<<"i", "n", "t", "e", "r", "c", "a", "l">>),
     <<"}", "{", "x", "}">>, <<"}", "}", "{", "{", "x", "}", "}">>, <<"{", "{", "x", "}", "}">>,
     <<BS, "{", "a", BS, "}">>}

\* "\mathcal{L}", "\mathbb{E}", "\mathbb{P}"
CalL == Cmd(<<"m", "a", "t", "h", "c", "a", "l">>) \o <<"{", "L", "}">>

BbE == Cmd(<<"m", "a", "t", "h", "b", "b">>) \o <<"{", "E", "}">>

BbP == Cmd(<<"m", "a", "t", "h", "b", "b">>) \o <<"{", "P", "}">>

\* "\sum_i x_i"
SumOverI == Cmd(<<"s", "u", "m">>) \o <<"_", "i", " ", "x", "_", "i">>

\* "\sum_{i=1}^{n} x_i"
SumToN ==
    Cmd(<<"s", "u", "m">>) \o <<"_", "{", "i", "=", "1", "}", "^", "{", "n", "}", " ", "x", "_", "i">>

\* "\mathcal{L} = \sum_i \log p(x_i)"
LogLoss ==
    CalL \o <<" ", "=", " ">> \o Cmd(<<"s", "u", "m">>) \o <<"_", "i", " ">>
        \o Cmd(<<"l", "o", "g">>) \o <<" ", "p", "(", "x", "_", "i", ")">>

\* "\nabla f(x)"
NablaF == Cmd(<<"n", "a", "b", "l", "a">>) \o <<" ", "f", "(", "x", ")">>

\* What may stand before a sum: nothing, or the marker of a classification
\* rule, among them the word "loss" in three letter cases and the four
\* spellings of an expectation or probability that are not "\mathbb{E}".
Marker ==
    {<<>>, <<"l", "o", "s", "s">>, <<"L", "o", "s", "s">>, <<"L", "O", "S", "S">>, CalL,
     Cmd(<<"n", "a", "b", "l", "a">>), Cmd(<<"p", "a", "r", "t", "i", "a", "l">>),
     BbE, BbP, Cmd(<<"E">>), Cmd(<<"P">>), Cmd(<<"P", "r">>),
     CalL \o <<" ">> \o Cmd(<<"n", "a", "b", "l", "a">>),
     Cmd(<<"n", "a", "b", "l", "a">>) \o <<" ">> \o BbE}

\* Expressions of each equation type: a marker alone, and before a sum.
Typed ==
    {SumToN, LogLoss, NablaF}
    \cup {m \o <<" ", "=", " ", "y">> : m \in Marker}
    \cup {m \o <<" ", "=", " ">> \o SumOverI : m \in Marker}

\* An element with the given name and content.
Element(name, content) == <<"<">> \o name \o <<">">> \o content \o <<"<", "/">> \o name \o <<">">>

\* "<math><mi>x</mi><mo>+</mo><mn>1</mn></math>", the same with white space
\* around the children, and "<math/>".
MathML ==
    LET mi == Element(<<"m", "i">>, <<"x">>)
        mo == Element(<<"m", "o">>, <<"+">>)
        mn == Element(<<"m", "n">>, <<"1">>)
    IN  {Element(<<"m", "a", "t", "h">>, mi \o mo \o mn),
         Element(<<"m", "a", "t", "h">>, <<" ">> \o mi \o <<" ">> \o mo \o <<" ">> \o mn \o <<"\n">>),
         <<"<", "m", "a", "t", "h", "/", ">">>}

Inputs == Soup \cup Commands \cup {GreekSum} \cup Fractions \cup Roots
              \cup Matrices \cup Long \cup Words \cup Typed

\* ------------------------------------- background service worker: values

\* null, and undefined (a property that is absent).
Null == "null"

Undefined == "undefined"

\* The pageData objects a page may send: two papers with a url and one
\* without.
Papers == {"paperA", "paperB", "noUrl"}

\* data.url, and state.currentPaper?.url when currentPaper is null.
url(data) == IF data \in {"paperA", "paperB"} THEN data ELSE Undefined

\* A variant of the test that takes every value for a paper id.
Falsy_never(v) == FALSE

\* !v
Falsy(v) == v \in {Undefined, Null, ""}

\* The state object of the worker as the script creates it.
InitialState == [currentPaper |-> Null, isIndexed |-> FALSE, settings |-> "default"]

\* No call has returned yet.
Pending == [type |-> "pending"]

NoCall == [fn |-> "none"]

Init ==
    /\ latex \in Inputs
    /\ result = Pending
    /\ call = NoCall
    /\ table = symbolMap
    /\ regexes = [name \in PatternNames |-> 0]
    /\ state = InitialState
    /\ handlers = <<>>

\* LaTeXParser.parse(latex), the first call of a session
Parse ==
    /\ result = Pending
    /\ result' = parse(latex)
    /\ regexes' = afterParse(result')
    /\ UNCHANGED <<latex, call, table, state, handlers>>

\* LaTeXParser.clean(cleaned), on the string an earlier parse cleaned
CallClean ==
    /\ result.type = "normal"
    /\ call = NoCall
    /\ call' = [fn |-> "clean", arg |-> result.value.cleaned,
                ret |-> clean(result.value.cleaned)]
    /\ UNCHANGED <<latex, result, table, regexes, state, handlers>>

\* LaTeXParser.toReadable(latex), on the input as given
CallToReadable ==
    /\ result # Pending
    /\ call = NoCall
    /\ call' = [fn |-> "toReadable", arg |-> latex, ret |-> toReadable(latex)]
    /\ UNCHANGED <<latex, result, table, regexes, state, handlers>>

\* LaTeXParser.estimateComplexity(latex), on the input as given
CallEstimateComplexity ==
    /\ result # Pending
    /\ call = NoCall
    /\ call' = [fn |-> "estimateComplexity", arg |-> latex,
                ret |-> estimateComplexity(latex)]
    /\ UNCHANGED <<latex, result, table, regexes, state, handlers>>

\* LaTeXParser.countNesting(latex), on the input as given
CallCountNesting ==
    /\ result # Pending
    /\ call = NoCall
    /\ call' = [fn |-> "countNesting", arg |-> latex, ret |-> countNesting(latex)]
    /\ UNCHANGED <<latex, result, table, regexes, state, handlers>>

\* LaTeXParser.extractVariables(latex), on the input as given
CallExtractVariables ==
    /\ result # Pending
    /\ call = NoCall
    /\ call' = [fn |-> "extractVariables", arg |-> latex,
                ret |-> extractVariables(latex)]
    /\ UNCHANGED <<latex, result, table, regexes, state, handlers>>

\* LaTeXParser.parse(latex) once more, on the same input: right after the
\* first parse, or after a direct call of extractVariables that followed it
CallParse ==
    /\ result # Pending
    /\ call.fn \in {"none", "extractVariables"}
    /\ call' = [fn |-> "parse", arg |-> latex, ret |-> parse(latex)]
    /\ regexes' = afterParse(call'.ret)
    /\ UNCHANGED <<latex, result, table, state, handlers>>

\* LaTeXParser.parseMathML(mathml), on a markup of its own
CallParseMathML ==
    /\ result # Pending
    /\ call = NoCall
    /\ \E mathml \in MathML :
          call' = [fn |-> "parseMathML", arg |-> mathml, ret |-> parseMathML(mathml)]
    /\ UNCHANGED <<latex, result, table, regexes, state, handlers>>

Next ==
    \/ Parse
    \/ CallCountNesting
    \/ CallParseMathML
    \/ CallParse
    \/ CallClean
    \/ CallToReadable
    \/ CallEstimateComplexity
    \/ CallExtractVariables

Spec == Init /\ [][Next]_vars

\* ------------------------------------- background service worker: model

\* The most messages delivered in one run.
MaxMessages == 2

Message(type, data, paperId) == [type |-> type, data |-> data, paperId |-> paperId]

\* The messages a content script or popup may send, one of an unknown type
\* among them.
Messages ==
    {Message("ANALYZE_PAGE", p, Undefined) : p \in {"paperA", "paperB"}}
    \cup {Message("INDEX_PAPER", p, Undefined) : p \in {"paperA", "noUrl"}}
    \cup {Message(t, "paperA", Undefined) :
             t \in {"GET_SUMMARY", "EXPLAIN_EQUATION", "EXTRACT_KEYPOINTS"}}
    \cup {Message("RAG_QUERY", "query", id) : id \in {Undefined, "paperB"}}
    \cup {Message(t, Undefined, Undefined) :
             t \in {"GET_STATE", "UPDATE_SETTINGS", "CHECK_BACKEND", "PING"}}

\* One call of handleMessage: the message, the requests it is waiting for,
\* what its awaits have returned so far, the requests it has sent, the
\* responses sendResponse was called with, and how its promise settled.
NewHandler(message) ==
    [type        |-> message.type,
     data        |-> message.data,
     paperId     |-> message.paperId,
     waiting     |-> {},
     indexResult |-> "none",
     summary     |-> "none",
     keypoints   |-> "none",
     sent        |-> <<>>,
     responses   |-> <<>>,
     settled     |-> "pending"]

\* { success: true, ... } and { success: false, error }
Success == [success |-> TRUE, error |-> FALSE, indexed |-> "none"]

Failure == [success |-> FALSE, error |-> TRUE, indexed |-> "none"]

\* The object a helper returns after its apiRequest fulfilled or threw.
Returned(ok) == IF ok THEN Success ELSE Failure

Outcome(ok) == IF ok THEN "ok" ELSE "failed"

\* apiRequest(endpoint, data) up to its await: the request is sent.
apiRequest(h, endpoint, paper_id) ==
    [h EXCEPT !.waiting = @ \cup {endpoint},
              !.sent = Append(@, [endpoint |-> endpoint, paper_id |-> paper_id])]

\* handleMessage(...).then(sendResponse), once handleMessage has returned.
sendResponse(h, response) ==
    [h EXCEPT !.responses = Append(@, response), !.settled = "fulfilled"]

\* The reply to endpoint has arrived.
received(h, endpoint) == [h EXCEPT !.waiting = @ \ {endpoint}]

\* The paper id ragQuery uses.
ragPaperId(h, currentPaper) ==
    IF ~Falsy(h.paperId) THEN h.paperId ELSE url(currentPaper)

\* ragQuery up to its await, or up to its return when it throws before.
ragQuery(h, currentPaper) ==
    IF Falsy(ragPaperId(h, currentPaper)) THEN sendResponse(h, Failure)
    ELSE apiRequest(h, "/rag/query", ragPaperId(h, currentPaper))

\* The return of analyzePage once Promise.all has fulfilled.
analyzePage(h) ==
    IF h.waiting # {} THEN h
    ELSE sendResponse(h, [success |-> TRUE, error |-> FALSE, indexed |-> h.indexResult])

\* handleMessage(message) up to its first await (or to its return when it
\* has none): the state it leaves and the handler it has become.
handleMessage(message) ==
    LET h == NewHandler(message)
    IN  CASE message.type = "ANALYZE_PAGE" ->
                [state   |-> [state EXCEPT !.currentPaper = message.data],
                 handler |-> apiRequest(h, "/rag/index", url(message.data))]
          [] message.type = "GET_SUMMARY" ->
                [state |-> state, handler |-> apiRequest(h, "/summarize", Undefined)]
          [] message.type = "EXPLAIN_EQUATION" ->
                [state |-> state, handler |-> apiRequest(h, "/explain-equations", Undefined)]
          [] message.type = "EXTRACT_KEYPOINTS" ->
                [state |-> state, handler |-> apiRequest(h, "/extract-key-points", Undefined)]
          [] message.type = "RAG_QUERY" ->
                [state |-> state, handler |-> ragQuery(h, state.currentPaper)]
          [] message.type = "INDEX_PAPER" ->
                [state |-> state, handler |-> apiRequest(h, "/rag/index", url(message.data))]
          [] message.type = "GET_STATE" ->
                [state |-> state, handler |-> sendResponse(h, Success)]
          [] message.type = "UPDATE_SETTINGS" ->
                [state   |-> [state EXCEPT !.settings = "updated"],
                 handler |-> [h EXCEPT !.waiting = {"storage"}]]
          [] message.type = "CHECK_BACKEND" ->
                [state |-> state, handler |-> [h EXCEPT !.waiting = {"/health"}]]
          [] OTHER ->
                [state |-> state, handler |-> sendResponse(h, Failure)]

parserVars == <<latex, result, call, table, regexes>>

WorkerInit ==
    /\ state = InitialState
    /\ handlers = <<>>
    /\ latex = <<>>
    /\ result = Pending
    /\ call = NoCall
    /\ table = symbolMap
    /\ regexes = [name \in PatternNames |-> 0]

\* The onMessage listener is called with a message.
Deliver ==
    /\ Len(handlers) < MaxMessages
    /\ \E message \in Messages :
          LET started == handleMessage(message)
          IN  /\ state' = started.state
              /\ handlers' = Append(handlers, started.handler)
    /\ UNCHANGED parserVars

\* The /rag/index request of handler i settles: indexPaper resumes, and
\* analyzePage after it.
IndexSettles ==
    /\ \E i \in 1..Len(handlers), ok \in BOOLEAN :
          /\ "/rag/index" \in handlers[i].waiting
          /\ LET h == [received(handlers[i], "/rag/index") EXCEPT !.indexResult = Outcome(ok)]
             IN  /\ state' = [state EXCEPT !.isIndexed = ok,
                                           !.currentPaper = IF ok THEN h.data ELSE @]
                 /\ handlers' =
                       [handlers EXCEPT ![i] =
                           IF h.type = "INDEX_PAPER" THEN sendResponse(h, Returned(ok))
                           ELSE apiRequest(apiRequest(h, "/summarize", Undefined),
                                           "/extract-key-points", Undefined)]
    /\ UNCHANGED parserVars

\* The /summarize request of handler i settles: getSummary returns.
SummarySettles ==
    /\ \E i \in 1..Len(handlers), ok \in BOOLEAN :
          /\ "/summarize" \in handlers[i].waiting
          /\ LET h == [received(handlers[i], "/summarize") EXCEPT !.summary = Outcome(ok)]
             IN  handlers' =
                     [handlers EXCEPT ![i] =
                         IF h.type = "GET_SUMMARY" THEN sendResponse(h, Returned(ok))
                         ELSE analyzePage(h)]
    /\ UNCHANGED <<state, latex, result, call, table, regexes>>

\* The /extract-key-points request of handler i settles: extractKeypoints
\* returns.
KeypointsSettles ==
    /\ \E i \in 1..Len(handlers), ok \in BOOLEAN :
          /\ "/extract-key-points" \in handlers[i].waiting
          /\ LET h == [received(handlers[i], "/extract-key-points")
                          EXCEPT !.keypoints = Outcome(ok)]
             IN  handlers' =
                     [handlers EXCEPT ![i] =
                         IF h.type = "EXTRACT_KEYPOINTS" THEN sendResponse(h, Returned(ok))
                         ELSE analyzePage(h)]
    /\ UNCHANGED <<state, latex, result, call, table, regexes>>

\* The /explain-equations request of handler i settles: explainEquation
\* returns.
ExplainSettles ==
    /\ \E i \in 1..Len(handlers), ok \in BOOLEAN :
          /\ "/explain-equations" \in handlers[i].waiting
          /\ handlers' = [handlers EXCEPT ![i] =
                             sendResponse(received(@, "/explain-equations"), Returned(ok))]
    /\ UNCHANGED <<state, latex, result, call, table, regexes>>

\* The /rag/query request of handler i settles: ragQuery returns.
QuerySettles ==
    /\ \E i \in 1..Len(handlers), ok \in BOOLEAN :
          /\ "/rag/query" \in handlers[i].waiting
          /\ handlers' = [handlers EXCEPT ![i] =
                             sendResponse(received(@, "/rag/query"), Returned(ok))]
    /\ UNCHANGED <<state, latex, result, call, table, regexes>>

\* The /health request of handler i settles: checkBackendHealth returns.
HealthSettles ==
    /\ \E i \in 1..Len(handlers), ok \in BOOLEAN :
          /\ "/health" \in handlers[i].waiting
          /\ handlers' = [handlers EXCEPT ![i] =
                             sendResponse(received(@, "/health"), Returned(ok))]
    /\ UNCHANGED <<state, latex, result, call, table, regexes>>

\* chrome.storage.local.set of handler i settles: when it fulfils,
\* handleMessage returns { success: true }; when it rejects, nothing catches
\* the exception, the promise of handleMessage rejects and then(sendResponse)
\* does not call sendResponse.
StorageSettles ==
    /\ \E i \in 1..Len(handlers), ok \in BOOLEAN :
          /\ "storage" \in handlers[i].waiting
          /\ handlers' = [handlers EXCEPT ![i] =
                             IF ok THEN sendResponse(received(@, "storage"), Success)
                             ELSE [received(@, "storage") EXCEPT !.settled = "rejected"]]
    /\ UNCHANGED <<state, latex, result, call, table, regexes>>

WorkerNext ==
    \/ Deliver
    \/ IndexSettles
    \/ SummarySettles
    \/ KeypointsSettles
    \/ ExplainSettles
    \/ QuerySettles
    \/ HealthSettles
    \/ StorageSettles

WorkerSpec == WorkerInit /\ [][WorkerNext]_vars

\* Every request and every storage write settles in the end.
WorkerFair == WorkerSpec /\ WF_vars(WorkerNext)

\* ---------------------------------------------------------------- claims

\* The record the parse of this session returned.
Out == result.value

\* C1: clean is idempotent: cleaning the string an earlier clean returned
\* gives that string back.
C1_CleanIdempotent == call.fn = "clean" => call.ret = call.arg

\* C2: the complexity parse returns, and the result of estimateComplexity, is
\* an integer in 1..10, and it is 1 for the empty string.
C2_ComplexityRange ==
    /\ result.type = "normal" =>
          /\ Out.structure.complexity \in 1..10
          /\ latex = <<>> => Out.structure.complexity = 1
    /\ call.fn = "estimateComplexity" =>
          /\ call.ret \in 1..10
          /\ call.arg = <<>> => call.ret = 1

\* Both ends of the range are reached: parse and a direct call both score 10.
C2_Witness ==
    /\ result.type = "normal"
    /\ Out.structure.complexity = 10
    /\ call.fn = "estimateComplexity"
    /\ call.ret = 10

\* C3: parse is total over strings: once it has returned, the outcome is a
\* record with exactly the seven fields, original is the input, and it is
\* never an exception.
C3_ParseTotal ==
    result # Pending =>
        /\ result.type = "normal"
        /\ DOMAIN result.value =
              {"original", "cleaned", "readable", "variables", "operators",
               "functions", "structure"}
        /\ Out.original = latex

\* A malformed input was parsed: a stray backslash, a closing brace that
\* nothing opens, and no letter for the variable pattern to match.
C3_Witness ==
    /\ result.type = "normal"
    /\ includes(latex, <<BS>>)
    /\ includes(latex, <<"}">>)
    /\ ~includes(latex, <<"{">>)
    /\ match(Out.cleaned, Latin).isNull

\* The input has none of the characters a detector looks for.
NoStructure(s) ==
    \A k \in 1..Len(s) :
        s[k] \notin Letter \cup {BS, "{", "}", "|", "=", "<", ">", "U+2264", "U+2265"}

\* C4: for an input without recognizable structure parse returns empty
\* variables, operators and functions, every flag false, complexity 1 and
\* type general.
C4_NoStructureDefaults ==
    (result.type = "normal" /\ NoStructure(latex)) =>
        /\ Out.variables = <<>>
        /\ Out.operators = <<>>
        /\ Out.functions = <<>>
        /\ ~Out.structure.isEquation /\ ~Out.structure.isInequality
        /\ ~Out.structure.isDefinition
        /\ ~Out.structure.hasSummation /\ ~Out.structure.hasIntegral
        /\ ~Out.structure.hasFraction /\ ~Out.structure.hasMatrix
        /\ Out.structure.complexity = 1
        /\ Out.structure.type = "general"

\* C5: an input that contains a matrix environment is parsed with hasMatrix
\* true, the matrix term 2 in its score, and type matrix_operation unless the
\* loss_function, gradient or probability rule matches.
C5_MatrixDetected ==
    (result.type = "normal" /\ \E name \in MatrixEnvName, body \in {<<"a">>, Rows} :
                                  includes(latex, env(name, body))) =>
        /\ Out.structure.hasMatrix
        /\ Out.structure.complexity =
              Min(10, 1 + Min(3, Len(Out.cleaned) \div 50) + Min(2, countNesting(Out.cleaned))
                        + Min(2, Len(OrEmpty(match(Out.cleaned, BigOp)))) + 2)
        /\ equationType(Out.cleaned, Out.structure.hasSummation, FALSE)
              \notin {"loss_function", "gradient", "probability"}
           => Out.structure.type = "matrix_operation"

\* C6: a command of the symbol table that stands in the cleaned string as a
\* whole token is rendered as its own glyph, whatever other key it extends;
\* "\alpha + \beta = \gamma" reads "α + β = γ" and is an equation.
C6_WholeTokenGlyph ==
    result.type = "normal" =>
        /\ \A n \in 1..Len(symbolMap), b \in Before, a \in After :
              Out.cleaned = b \o symbolMap[n][1] \o a => Out.readable = b \o symbolMap[n][2] \o a
        /\ latex = GreekSum =>
              /\ Out.readable = <<"U+03B1", " ", "+", " ", "U+03B2", " ", "=", " ", "U+03B3">>
              /\ Out.structure.isEquation

\* key is a proper prefix of the command t.
ProperPrefix(key, t) == Len(key) < Len(t) /\ SubSeq(t, 1, Len(key)) = key

\* C7: a command that is no key of the table but starts with one is never
\* partially replaced: readable holds no glyph followed by the leftover
\* letters of the longer command.
C7_NoPartialGlyph ==
    result.type = "normal" =>
        \A t \in OtherCommands, b \in Before, a \in After, n \in 1..Len(symbolMap) :
            (Out.cleaned = b \o t \o a /\ ProperPrefix(symbolMap[n][1], t)) =>
                ~includes(Out.readable,
                          symbolMap[n][2] \o SubSeq(t, Len(symbolMap[n][1]) + 1, Len(t)))

\* The readable form of an operand: toReadable before its final trim.
Readable(X) == Run(readableStep, X, 1, 13)

\* "(A)/(B)"
Quotient(A, B) == <<"(">> \o A \o <<")", "/", "(">> \o B \o <<")">>

\* C8: every fraction whose operands are non-empty and hold no brace is
\* rewritten to (A')/(B'), wherever it stands; "\frac{a}{b}" reads "(a)/(b)".
C8_FractionRewritten ==
    result.type = "normal" =>
        /\ \A A \in Operand, B \in Operand :
              includes(Out.cleaned, frac(A, B)) =>
                  includes(Out.readable, Quotient(Readable(A), Readable(B)))
        /\ Out.cleaned = frac(<<"a">>, <<"b">>) => Out.readable = Quotient(<<"a">>, <<"b">>)

\* C9: "\sqrt{X}" reads "√(X)" and "\sqrt[n]{X}" reads "n√(X)" for every
\* non-empty X without braces.
C9_RootRewritten ==
    result.type = "normal" =>
        \A X \in Operand :
            /\ Out.cleaned = sqrt(X) =>
                  Out.readable = <<"U+221A", "(">> \o Readable(X) \o <<")">>
            /\ \A n \in RootIndex :
                  Out.cleaned = sqrtN(n, X) =>
                      Out.readable = n \o <<"U+221A", "(">> \o Readable(X) \o <<")">>

\* C10: no two entries of the variables list have the same symbol.
C10_VariablesDistinct ==
    result.type = "normal" =>
        \A j \in 1..Len(Out.variables), k \in 1..Len(Out.variables) :
            j # k => Out.variables[j].symbol # Out.variables[k].symbol

\* The letters extractVariables skips.
Reserved == {<<"d">>, <<"e">>, <<"i">>}

\* The letter at position i of s stands alone: no backslash or letter before
\* it and no letter after it.
Isolated(s, i) ==
    /\ s[i] \in Letter
    /\ (i > 1 => s[i - 1] \notin Letter \cup {BS})
    /\ (i < Len(s) => s[i + 1] \notin Letter)

\* list is what extractVariables returns for s: no entry is a reserved
\* letter, and every other isolated letter of s has its latin entry.
ReservedSkipped(s, list) ==
    /\ \A k \in 1..Len(list) : list[k].symbol \notin Reserved
    /\ \A i \in 1..Len(s) :
          (Isolated(s, i) /\ <<s[i]>> \notin Reserved) =>
              \E k \in 1..Len(list) :
                  list[k] = [symbol |-> <<s[i]>>, latex |-> <<s[i]>>, type |-> "latin"]

\* C11: the variables list, of parse (over the cleaned string) and of a
\* direct call of extractVariables, has no entry with symbol d, e or i, and
\* has a latin entry for every other isolated single Latin letter.
C11_ReservedLetters ==
    /\ result.type = "normal" => ReservedSkipped(Out.cleaned, Out.variables)
    /\ call.fn = "extractVariables" => ReservedSkipped(call.arg, call.ret.value)

\* "x_i" was given to extractVariables: x is listed, the isolated i is not.
C11_Witness ==
    /\ call.fn = "extractVariables"
    /\ call.arg = <<"x", "_", "i">>
    /\ call.ret.value = <<[symbol |-> <<"x">>, latex |-> <<"x">>, type |-> "latin"]>>
    /\ result.type = "normal"
    /\ Out.variables = call.ret.value

\* The command cmd stands in s as a whole token: some occurrence of it is
\* not followed by a letter.
WholeToken(s, cmd) ==
    \E i \in 1..Len(s) :
        /\ At(s, i, cmd)
        /\ (i + Len(cmd) <= Len(s) => s[i + Len(cmd)] \notin Letter)

\* C12: variables has a greek entry for a command of the table only if that
\* command occurs in the cleaned string as a whole command token; a longer
\* command that starts with the key yields no entry for the key.
C12_ExactTokenLookup ==
    result.type = "normal" =>
        \A k \in 1..Len(Out.variables) :
            Out.variables[k].type = "greek" => WholeToken(Out.cleaned, Out.variables[k].latex)

\* s holds the word "loss" in some letter case, or "\mathcal{L}".
LossMarker(s) ==
    \E i \in 1..Len(s) : AtCI(s, i, <<"l", "o", "s", "s">>) \/ At(s, i, CalL)

\* s holds "\mathbb{E}", "\E", "\mathbb{P}", "\P" or "\Pr".
ChanceMarker(s) ==
    \E i \in 1..Len(s) : Expectation(s, i) > 0 \/ Probability(s, i) > 0

\* s holds "\nabla" or "\partial".
GradientMarker(s) ==
    includes(s, Cmd(<<"n", "a", "b", "l", "a">>))
        \/ includes(s, Cmd(<<"p", "a", "r", "t", "i", "a", "l">>))

\* s holds the opening of a matrix environment.
MatrixMarker(s) == \E i \in 1..Len(s) : MatrixEnv(s, i) > 0

\* value is a member of the list.
Has(list, value) == \E k \in 1..Len(list) : list[k] = value

\* C13: an input that holds \sum and no loss marker, no \nabla or \partial,
\* no expectation or probability marker and no matrix environment is parsed
\* with 'sum' among the operators, hasSummation true and type 'summation'.
C13_SummationType ==
    (/\ result.type = "normal"
     /\ includes(latex, Cmd(<<"s", "u", "m">>))
     /\ ~LossMarker(latex) /\ ~GradientMarker(latex)
     /\ ~ChanceMarker(latex) /\ ~MatrixMarker(latex)) =>
        /\ Has(Out.operators, "sum")
        /\ Out.structure.hasSummation
        /\ Out.structure.type = "summation"

\* C14: when the cleaned string holds \sum and functions includes 'loss',
\* the type is 'loss_function'; "\mathcal{L} = \sum_i \log p(x_i)" has type
\* 'loss_function' and 'logarithm' among its functions.
C14_LossType ==
    result.type = "normal" =>
        /\ (includes(Out.cleaned, Cmd(<<"s", "u", "m">>)) /\ Has(Out.functions, "loss"))
              => Out.structure.type = "loss_function"
        /\ latex = LogLoss =>
              /\ Out.structure.type = "loss_function"
              /\ Has(Out.functions, "logarithm")

\* The rule of the first branch: a summation and the word "loss" or "\mathcal{L}".
LossRule(s) ==
    /\ includes(s, Cmd(<<"s", "u", "m">>))
    /\ includes(s, <<"l", "o", "s", "s">>) \/ includes(s, CalL)

\* C15: when the cleaned string holds \nabla, operators includes 'gradient';
\* when it holds \nabla or \partial and the loss_function rule does not
\* match, the type is 'gradient'.
C15_GradientType ==
    result.type = "normal" =>
        /\ includes(Out.cleaned, Cmd(<<"n", "a", "b", "l", "a">>)) => Has(Out.operators, "gradient")
        /\ (GradientMarker(Out.cleaned) /\ ~LossRule(Out.cleaned))
              => Out.structure.type = "gradient"

\* "\nabla f(x)" was parsed: a gradient, with the gradient operator.
C15_Witness ==
    /\ result.type = "normal"
    /\ latex = NablaF
    /\ Out.operators = <<"gradient">>
    /\ Out.structure.type = "gradient"

\* The six types in their fixed order.
TypeOrder ==
    <<"loss_function", "gradient", "probability", "matrix_operation", "summation", "general">>

\* The rule of type t matches the parsed input: the condition of its branch.
RuleMatches(t) ==
    CASE t = "loss_function"    -> LossRule(Out.cleaned)
      [] t = "gradient"         -> GradientMarker(Out.cleaned)
      [] t = "probability"      -> includes(Out.cleaned, BbE) \/ includes(Out.cleaned, Cmd(<<"P", "r">>))
      [] t = "matrix_operation" -> Out.structure.hasMatrix
      [] t = "summation"        -> Out.structure.hasSummation
      [] t = "general"          -> TRUE

\* "\mathcal{L} \nabla = \sum_i x_i" and "\nabla = \sum_i x_i"
LossOfGradient ==
    CalL \o <<" ">> \o Cmd(<<"n", "a", "b", "l", "a">>) \o <<" ", "=", " ">> \o SumOverI

GradientOfSum == Cmd(<<"n", "a", "b", "l", "a">>) \o <<" ", "=", " ">> \o SumOverI

\* C16: the type is one of the six, and it is the earliest type in the fixed
\* order whose rule matches the cleaned string; an input with \sum,
\* \mathcal{L} and \nabla is a loss_function, one with \nabla and \sum and no
\* loss marker a gradient.
C16_TypePriority ==
    result.type = "normal" =>
        /\ \E n \in 1..Len(TypeOrder) :
              /\ Out.structure.type = TypeOrder[n]
              /\ RuleMatches(TypeOrder[n])
              /\ \A m \in 1..(n - 1) : ~RuleMatches(TypeOrder[m])
        /\ latex = LossOfGradient => Out.structure.type = "loss_function"
        /\ latex = GradientOfSum => Out.structure.type = "gradient"

\* An input on which the loss, gradient and summation rules all match was
\* parsed.
C16_Witness ==
    /\ result.type = "normal"
    /\ latex = LossOfGradient
    /\ RuleMatches("loss_function") /\ RuleMatches("gradient") /\ RuleMatches("summation")
    /\ Out.structure.type = "loss_function"

\* C17: when operators includes 'expectation' or 'probability' and neither
\* the loss_function rule nor the gradient rule matches, the type is
\* 'probability' (the loss rule is excluded in both readings of its marker:
\* the branch condition, and the word "loss" in any letter case).
C17_ProbabilityType ==
    (/\ result.type = "normal"
     /\ Has(Out.operators, "expectation") \/ Has(Out.operators, "probability")
     /\ ~LossRule(Out.cleaned)
     /\ ~LossMarker(Out.cleaned)
     /\ ~GradientMarker(Out.cleaned)) =>
        Out.structure.type = "probability"

\* C18: after any calls the symbol table is what it was, and a second parse
\* of the same input returns a record equal to the first, with original the
\* input verbatim: no result depends on what an earlier call left behind.
C18_ParsePure ==
    /\ table = symbolMap
    /\ call.fn = "parse" =>
          /\ call.ret = result
          /\ call.ret.type = "normal"
          /\ call.ret.value.original = latex

\* "\sum_{i=1}^{n} x_i" was parsed a second time, after the pattern objects
\* of the first parse were left with positions past their matches.
C18_Witness ==
    /\ call.fn = "parse"
    /\ call.arg = SumToN
    /\ Has(call.ret.value.operators, "sum")
    /\ regexes["sum"] = 4
    /\ regexes["norm"] = 1

\* C19: parseMathML returns a record of the shape of parse's: it has a
\* cleaned and a readable field, each the flattened text content of the
\* markup, and variables, operators and functions, each empty.
C19_MathMLShape ==
    call.fn = "parseMathML" =>
        /\ call.ret.type = "normal"
        /\ {"cleaned", "readable", "variables", "operators", "functions"}
              \subseteq DOMAIN call.ret.value
        /\ call.ret.value.cleaned = textContent(call.arg)
        /\ call.ret.value.readable = textContent(call.arg)
        /\ call.ret.value.variables = <<>>
        /\ call.ret.value.operators = <<>>
        /\ call.ret.value.functions = <<>>

\* The number of positions of s at which pat stands.
Count(s, pat) == Cardinality({i \in 1..Len(s) : At(s, i, pat)})

\* C20: nested fractions are rewritten through: "\frac{\frac{a}{b}}{c}" reads
\* "((a)/(b))/(c)", and every \frac of the cleaned string yields exactly one
\* "/" in readable, between two parenthesised operands.
C20_NestedFractions ==
    result.type = "normal" =>
        /\ Out.cleaned = NestedFraction =>
              Out.readable = Quotient(Quotient(<<"a">>, <<"b">>), <<"c">>)
        /\ latex \in Fractions =>
              /\ Count(Out.readable, <<"/">>) = Count(Out.cleaned, Cmd(<<"f", "r", "a", "c">>))
              /\ Count(Out.readable, <<")", "/", "(">>) = Count(Out.readable, <<"/">>)

\* s holds two vertical bars, one after the other.
BarPaired(s) == \E i \in 1..Len(s), m \in 1..Len(s) : i < m /\ s[i] = "|" /\ s[m] = "|"

\* C21: functions includes 'norm' if and only if the cleaned string holds a
\* pair of vertical bars; an input without a vertical bar never yields it.
C21_NormIffBars ==
    result.type = "normal" =>
        /\ Has(Out.functions, "norm") <=> BarPaired(Out.cleaned)
        /\ ~includes(latex, <<"|">>) => ~Has(Out.functions, "norm")

\* s holds the word "sigmoid" (in any letter case) or the command "\sigma".
SigmoidMarker(s) ==
    \E i \in 1..Len(s) :
        AtCI(s, i, <<"s", "i", "g", "m", "o", "i", "d">>) \/ At(s, i, Cmd(<<"s", "i", "g", "m", "a">>))

\* C22: functions includes 'sigmoid' only when the cleaned string holds the
\* word sigmoid or the lower-case command \sigma; an input whose only sigma
\* is the upper-case \Sigma does not yield it.
C22_SigmoidLowerCase ==
    (result.type = "normal" /\ Has(Out.functions, "sigmoid")) => SigmoidMarker(Out.cleaned)

\* n(s): the occurrences of \sum, \prod, \int, \lim and \frac as whole
\* command tokens, that is with no letter after them.
TokenCount(s) ==
    Cardinality({i \in 1..Len(s) :
                    /\ BigOp(s, i) > 0
                    /\ (BigOp(s, i) <= Len(s) => s[BigOp(s, i)] \notin Letter)})

\* The score of the claim for the string s.
Score(s) ==
    Min(10, 1 + Min(3, Len(s) \div 50) + Min(2, countNesting(s)) + Min(2, TokenCount(s))
              + (IF MatrixMarker(s) THEN 2 ELSE 0))

\* C23: estimateComplexity(s) is min(10, 1 + min(3, floor(len/50))
\* + min(2, nesting depth) + min(2, n(s)) + 2 for a matrix marker), where
\* n(s) counts whole command tokens only.
C23_ComplexityFormula ==
    /\ call.fn = "estimateComplexity" => call.ret = Score(call.arg)
    /\ result.type = "normal" => Out.structure.complexity = Score(Out.cleaned)

\* The depth after the first n braces when the running counter stops at zero.
RECURSIVE OpenAfter(_, _)
OpenAfter(braces, n) ==
    IF n = 0 THEN 0
    ELSE IF braces[n] = "{" THEN OpenAfter(braces, n - 1) + 1
    ELSE Max(0, OpenAfter(braces, n - 1) - 1)

\* The maximum number of simultaneously open "{" of s.
MaxOpen(s) ==
    LET braces == SelectSeq(s, LAMBDA c : c \in {"{", "}"})
    IN  IF braces = <<>> THEN 0
        ELSE LET depths == {OpenAfter(braces, n) : n \in 0..Len(braces)}
             IN  CHOOSE d \in depths : \A e \in depths : e <= d

\* C24: countNesting returns the maximum number of simultaneously open "{":
\* a closing brace that nothing opened does not lower the depth of what
\* follows; "}{x}" has depth 1 and "}}{{x}}" has depth 2.
C24_NestingDepth ==
    call.fn = "countNesting" =>
        /\ call.ret = MaxOpen(call.arg)
        /\ call.arg = <<"}", "{", "x", "}">> => call.ret = 1
        /\ call.arg = <<"}", "}", "{", "{", "x", "}", "}">> => call.ret = 2

\* s holds a backslash immediately followed by a letter.
CommandToken(s) == \E i \in 1..(Len(s) - 1) : s[i] = BS /\ s[i + 1] \in Letter

\* s is a readable string: no brace, no command token, no white space at
\* either end.
Plain(s) ==
    /\ \A i \in 1..Len(s) : s[i] \notin {"{", "}"}
    /\ ~CommandToken(s)
    /\ s # <<>> => (s[1] \notin WhiteSpace /\ s[Len(s)] \notin WhiteSpace)

\* C25: what toReadable returns, called directly or by parse, holds no brace
\* and no command token and has no leading or trailing white space, also for
\* inputs with escaped braces such as "\{a\}".
C25_ReadablePlain ==
    /\ call.fn = "toReadable" => Plain(call.ret)
    /\ result.type = "normal" => Plain(Out.readable)

\* list holds members of order only, each at most once, in the order of order.
InOrder(list, order) ==
    \E pos \in [1..Len(list) -> 1..Len(order)] :
        /\ \A k \in 1..Len(list) : list[k] = order[pos[k]]
        /\ \A j \in 1..Len(list), k \in 1..Len(list) : j < k => pos[j] < pos[k]

\* C26: the fields of one result agree: hasSummation iff operators has 'sum',
\* hasIntegral iff it has 'integral'; type summation or loss_function
\* implies hasSummation, type matrix_operation implies hasMatrix; operators
\* and functions hold each tag at most once, in the order of their tables.
C26_FieldsConsistent ==
    result.type = "normal" =>
        /\ Out.structure.hasSummation <=> Has(Out.operators, "sum")
        /\ Out.structure.hasIntegral <=> Has(Out.operators, "integral")
        /\ Out.structure.type \in {"summation", "loss_function"} => Out.structure.hasSummation
        /\ Out.structure.type = "matrix_operation" => Out.structure.hasMatrix
        /\ InOrder(Out.operators,
                   <<"sum", "product", "integral", "limit", "expectation", "probability",
                     "gradient", "argmax", "argmin">>)
        /\ InOrder(Out.functions,
                   <<"exponential", "logarithm", "softmax", "sigmoid", "relu", "tanh",
                     "loss", "norm">>)

\* "\mathcal{L} = \sum_i \log p(x_i)" was parsed: one operator, three
\* functions in table order, a summation classified as a loss function.
C26_Witness ==
    /\ result.type = "normal"
    /\ latex = LogLoss
    /\ Out.operators = <<"sum">>
    /\ Out.functions = <<"logarithm", "loss", "norm">>
    /\ Out.structure.hasSummation
    /\ Out.structure.type = "loss_function"

\* The handlers of the ANALYZE_PAGE and INDEX_PAPER messages.
IndexingRequests == {i \in 1..Len(handlers) : handlers[i].type \in {"ANALYZE_PAGE", "INDEX_PAPER"}}

\* The most recently issued of them.
LastIssued == CHOOSE i \in IndexingRequests : \A j \in IndexingRequests : j <= i

\* C27: once every ANALYZE_PAGE and INDEX_PAPER request in flight has
\* completed, whatever the order in which overlapping requests settled,
\* state.currentPaper is the paper of the most recently issued request and
\* state.isIndexed is true exactly when the indexing request for that paper
\* succeeded.
C27_LastRequestWins ==
    (/\ IndexingRequests # {}
     /\ \A i \in IndexingRequests : handlers[i].settled # "pending")
    => /\ state.currentPaper = handlers[LastIssued].data
       /\ state.isIndexed <=> (handlers[LastIssued].indexResult = "ok")

\* Handler i has been answered: sendResponse was called once, with an object
\* whose success field is a boolean.
Answered(i) ==
    /\ Len(handlers[i].responses) = 1
    /\ handlers[i].responses[1].success \in BOOLEAN

\* C28: every message delivered to the onMessage listener eventually
\* receives exactly one response object with a boolean success field,
\* whatever its type and whether the backend request or the storage write
\* succeeds or fails; a failure is reported as { success: false, error }.
C28_AlwaysAnswered ==
    /\ \A i \in 1..MaxMessages : (Len(handlers) >= i) ~> (Len(handlers) >= i /\ Answered(i))
    /\ [](\A i \in 1..Len(handlers) :
             /\ Len(handlers[i].responses) <= 1
             /\ \A k \in 1..Len(handlers[i].responses) :
                   handlers[i].responses[k].success = ~handlers[i].responses[k].error)

\* C29: ANALYZE_PAGE responds with success: true only if both the summarize
\* request and the key-point request succeeded, and with
\* { success: false, error } if either failed; the indexed field of a
\* successful response is the outcome of the same call's indexing request.
C29_AnalyzeReportsFailure ==
    \A i \in 1..Len(handlers) :
        (handlers[i].type = "ANALYZE_PAGE" /\ handlers[i].responses # <<>>)
        => LET response == handlers[i].responses[1]
               bothOk == handlers[i].summary = "ok" /\ handlers[i].keypoints = "ok"
           IN  /\ response.success => bothOk
               /\ ~bothOk => response = Failure
               /\ response.success => response.indexed = handlers[i].indexResult

\* A step in which the listener was called with a RAG_QUERY message.
RagQueryDelivered ==
    /\ Len(handlers') = Len(handlers) + 1
    /\ handlers'[Len(handlers')].type = "RAG_QUERY"

\* C30: ragQuery never sends a /rag/query request without a paper id. When
\* the message carries no paperId and state.currentPaper is null or has no
\* url, it returns { success: false, error } without calling the backend and
\* leaves state unchanged; otherwise the paper_id of the request is the
\* message's paperId if given, else the url of state.currentPaper, whatever
\* state.isIndexed is.
C30_QueryNeedsPaperId ==
    [][RagQueryDelivered =>
          LET h == handlers'[Len(handlers')]
          IN  /\ state' = state
              /\ \A k \in 1..Len(h.sent) : h.sent[k].paper_id # Undefined
              /\ IF h.paperId = Undefined /\ url(state.currentPaper) = Undefined
                 THEN h.sent = <<>> /\ h.responses = <<Failure>>
                 ELSE /\ h.responses = <<>>
                      /\ h.sent = << [endpoint |-> "/rag/query",
                                      paper_id |-> IF h.paperId # Undefined THEN h.paperId
                                                   ELSE url(state.currentPaper)] >>]_vars

\* A query without paperId was sent with the url of the current paper while
\* state.isIndexed was false.
C30_Witness ==
    \E i \in 1..Len(handlers) :
        /\ handlers[i].type = "RAG_QUERY"
        /\ handlers[i].paperId = Undefined
        /\ handlers[i].sent # <<>>
        /\ handlers[i].sent[1].paper_id = url(state.currentPaper)
        /\ ~state.isIndexed

====
